---- MODULE Spec2Model ----
(***************************************************************************)
(* Model of the gammapy-recipes notebooks.                                 *)
(*                                                                         *)
(* The pulsar-phase notebook (src/unnamed/part_001) is a linear sequence   *)
(* of cells working on kernel variables (data_store, observation, model,   *)
(* phases, table, new_obs, new_hdu, ...) and on files of the DL3           *)
(* directory.  Every code cell is one action; pc names the next cell.      *)
(*                                                                         *)
(* Numbers: times are whole MJD units; phases are fixed-point numbers      *)
(* counted in tenths of a turn (One = 1.0), on which + and < are exact.    *)
(***************************************************************************)
EXTENDS Integers, Sequences, FiniteSets, TLC

VARIABLES
    pc,               \* the next cell of the run
    run,              \* how many times the workflow has been started
    error,            \* "" or the cell whose exception ended the run
    indexFiles,       \* disk: path -> HDU index table (a sequence of rows)
    eventFiles,       \* disk: path -> event table written there
    dirs,             \* disk: directories created by the notebook
    hdu_table,        \* data_store.hdu_table
    observation,      \* the Observation taken from the data store
    events_in_memory, \* does the observation keep the EventList it hands out
    table_is_obs_events, \* is `table` the object behind observation.events
    times,            \* observation.events.time
    ephemeris_file,   \* name of the .par file
    model,            \* global `model`: the parsed timing model
    timing_model,     \* the argument last passed to check_time
    warned,           \* did check_time log its warning
    toas,             \* the TOAs handed to model.phase
    raw_phases,       \* model.phase(toas, abs_phase=True)[1]
    phases,           \* phases after the np.where shift
    table,            \* the event table being augmented
    attached,         \* the (key, value) pairs put into table.meta, in order
    new_obs,          \* the new Observation
    filename,         \* name of the augmented event file
    file_path,        \* where new_obs is written
    new_hdu,          \* the copy of the HDU index being patched
    pulsar_hdu,       \* hdu table of pulsar_datastore
    reloaded,         \* observations[0] of pulsar_datastore
    models,           \* editing notebook: the parameters of the Models object
    df,               \* editing notebook: models.to_parameters_table().to_pandas()
    qgrid_widget,     \* editing notebook: the grid and the frame it shows
    qgrid_df,         \* editing notebook: qgrid_widget.get_changed_df()
    parameters,       \* MCMC notebook: dataset.models.parameters
    models_true,      \* MCMC notebook: models.copy() at the definition
    p0,               \* MCMC notebook: values of the free parameters
    labels,           \* MCMC notebook: names of the free parameters
    randomize_walkers, \* MCMC notebook: rng.normal(1, 0.03, ...), in 1/100
    p0_walkers,       \* MCMC notebook: starting positions of the walkers
    sampler,          \* MCMC notebook: the emcee sampler
    sampler2,         \* MCMC notebook: the zeus sampler
    samples1,         \* MCMC notebook: sampler.get_chain()
    samples2,         \* MCMC notebook: sampler2.get_chain()
    corner_samples,   \* MCMC notebook: s, the samples given to corner()
    red_line,         \* MCMC notebook: the parameters of the curve in red
    raised            \* MCMC notebook: the exception a plot cell raised

vars == << pc, run, error, indexFiles, eventFiles, dirs, hdu_table, observation,
           events_in_memory, table_is_obs_events, times, ephemeris_file, model,
           timing_model, warned, toas, raw_phases, phases, table, attached,
           new_obs, filename, file_path, new_hdu, pulsar_hdu, reloaded,
           models, df, qgrid_widget, qgrid_df, parameters, models_true, p0,
           labels,
           randomize_walkers, p0_walkers, sampler, sampler2, samples1,
           samples2, corner_samples, red_line, raised >>

\* the kernel variables of the editing notebook
editKernel == << models, df, qgrid_widget, qgrid_df >>

\* the kernel variables of the MCMC notebook
mcmcKernel ==
    << parameters, models_true, p0, labels, randomize_walkers, p0_walkers,
       sampler, sampler2 >>

\* the variables the cells after the sampler runs assign
plotKernel == << samples1, samples2, corner_samples, red_line, raised >>

\* the kernel variables of the notebooks other than the pulsar-phase one
otherKernels == << editKernel, mcmcKernel, plotKernel >>

(***************************************************************************)
(* Bounds of the model.                                                    *)
(***************************************************************************)
MaxRuns == 2
MaxEvents == 3
MaxRows == 3
MaxLogs == 2
MaxTime == 3
MaxChanges == 3
MaxCalls == 2

(***************************************************************************)
(* Fixed-point phases: One stands for the literal 1.0 of the shift.        *)
(***************************************************************************)
One == 10

\* evaluator values tried by the phase specification: -1.2 .. 1.0
RawPhases == {-12, -10, -5, -3, -1, 0, 1, 5, 6, 10}

\* evaluator values tried inside the whole workflow
WorkflowRawPhases == {-3, 4}

\* all sequences over S of length n
RECURSIVE SeqsOfLen(_, _)
SeqsOfLen(S, n) ==
    IF n = 0 THEN { << >> }
    ELSE { Append(s, x) : s \in SeqsOfLen(S, n - 1), x \in S }

\* all sequences over S of length at most n
SeqsUpTo(S, n) == UNION { SeqsOfLen(S, k) : k \in 0..n }

(***************************************************************************)
(* The DL3 directory on disk.                                              *)
(***************************************************************************)
DL3_dir == "/data/magic"

HduIndexName == "hdu-index.fits.gz"

PulsarIndexName == "hdu-index-pulsar.fits.gz"

\* observations listed in the store; the event file of MissingFileObsIds is absent
GoodObsIds == {7, 5029747}

MissingFileObsIds == {8}

StoreObsIds == GoodObsIds \cup MissingFileObsIds

\* identifiers a user may ask for: the listed ones and one the store lacks
RequestedObsIds == StoreObsIds \cup {9999}

\* f"{obs_id:04d}"
Pad4(n) ==
    IF n < 10 THEN "000" \o ToString(n)
    ELSE IF n < 100 THEN "00" \o ToString(n)
    ELSE IF n < 1000 THEN "0" \o ToString(n)
    ELSE ToString(n)

OrigFileName(id) == "run_" \o ToString(id) \o "_DL3.fits"

\* pathlib: base_dir / FILE_DIR / FILE_NAME, a leading "./" of FILE_DIR dropped
Resolve(base, file_dir, file_name) ==
    LET d == IF Len(file_dir) >= 2 /\ SubSeq(file_dir, 1, 2) = "./"
             THEN SubSeq(file_dir, 3, Len(file_dir))
             ELSE file_dir
    IN  base \o "/" \o d \o file_name

Row(id, type, name, fdir, fname) ==
    [OBS_ID |-> id, HDU_TYPE |-> type, HDU_NAME |-> name,
     FILE_DIR |-> fdir, FILE_NAME |-> fname]

\* the index of the store: an events and an effective-area HDU per observation
StoreRows(id) ==
    << Row(id, "events", "EVENTS", "./", OrigFileName(id)),
       Row(id, "aeff", "EFFECTIVE AREA", "./", OrigFileName(id)) >>

StoreIndex ==
    StoreRows(7) \o StoreRows(5029747) \o StoreRows(8)

\* start and stop time of each observation (obs-index)
ObsStart(id) == IF id = 7 THEN 1 ELSE 2

ObsStop(id) == IF id = 7 THEN 2 ELSE 3

ObsEventTimes(id) == IF id = 7 THEN << 1, 2 >> ELSE << 3 >>

\* an event table: colnames (the names of the columns, in order), cols
\* (name -> values, one per row) and meta (key -> value)
OrigEvents(id) ==
    [colnames |-> << "TIME" >>,
     cols |-> ("TIME" :> ObsEventTimes(id)),
     meta |-> ("OBS_ID" :> ToString(id))]

NoTable == [colnames |-> << >>, cols |-> << >>, meta |-> << >>]

\* the .par files on disk: validity window, and whether a JUMP line is present
ParFiles ==
    ("0534+2200_ApJ_708_1254_2010.par" :>
        [PSR |-> "J0534+2200", START |-> 1, FINISH |-> 2, TZRMJD |-> 1,
         TZRSITE |-> "coe", JUMP |-> FALSE]) @@
    ("crab_2015.par" :>
        [PSR |-> "J0534+2200", START |-> 0, FINISH |-> 3, TZRMJD |-> 2,
         TZRSITE |-> "ssb", JUMP |-> FALSE]) @@
    ("crab_jump.par" :>
        [PSR |-> "J0534+2200", START |-> 0, FINISH |-> 3, TZRMJD |-> 2,
         TZRSITE |-> "ssb", JUMP |-> TRUE])

ParNames == DOMAIN ParFiles \cup {"missing.par"}

NoModel ==
    [PSR |-> "", START |-> 0, FINISH |-> 0, TZRMJD |-> 0, TZRSITE |-> "",
     file |-> ""]

NoObservation == [obs_id |-> 0, tstart |-> 0, tstop |-> 0]

\* dict / column assignment: d[k] = v
Put(d, k, v) == [x \in DOMAIN d \cup {k} |-> IF x = k THEN v ELSE d[x]]

\* HDUIndexTable lookup: the first row of the observation with the HDU type
RowIdx(tbl, id, type) ==
    { i \in 1..Len(tbl) : tbl[i].OBS_ID = id /\ tbl[i].HDU_TYPE = type }

Min(S) == CHOOSE x \in S : \A y \in S : x <= y

\* path of the event file the index gives for the observation
EventsLocation(tbl, id) ==
    LET r == tbl[Min(RowIdx(tbl, id, "events"))]
    IN  Resolve(DL3_dir, r.FILE_DIR, r.FILE_NAME)

\* str(data_store.hdu_table.base_dir) + "/"
datastore_dir == DL3_dir \o "/"

output_directory == "pulsar_events_file/"

output_path == datastore_dir \o output_directory

(***************************************************************************)
(* Exceptions: no cell has a try/except, so an exception ends the run at   *)
(* the failing cell.                                                       *)
(***************************************************************************)
\* a try/except around get_model that lets the run go on
ContinueAfterGetModel(cell, next) ==
    IF cell = "get_model" THEN next ELSE "aborted"

OnError(cell, next) == "aborted"

Raise(cell, next) ==
    /\ pc' = OnError(cell, next)
    /\ error' = cell

(***************************************************************************)
(* The cells of the pulsar-phase notebook.                                 *)
(***************************************************************************)

\* data_store = DataStore.from_dir(DL3_dir)
OpenStore ==
    /\ pc = "open_store"
    /\ hdu_table' = indexFiles[Resolve(DL3_dir, "", HduIndexName)]
    /\ pc' = "get_obs"
    /\ UNCHANGED << otherKernels, run, error, indexFiles, eventFiles, dirs,
                    observation,
                    events_in_memory, table_is_obs_events, times,
                    ephemeris_file, model, timing_model, warned, toas,
                    raw_phases, phases, table, attached, new_obs, filename,
                    file_path, new_hdu, pulsar_hdu, reloaded >>

\* observations = data_store.get_observations([id], required_irf="point-like")
GetObservations(id) ==
    /\ pc = "get_obs"
    /\ IF id \in StoreObsIds /\ RowIdx(hdu_table, id, "events") # {}
       THEN /\ observation' = [obs_id |-> id, tstart |-> ObsStart(id),
                                tstop |-> ObsStop(id)]
            /\ table_is_obs_events' = FALSE
            /\ pc' = "times"
            /\ error' = error
       ELSE /\ Raise("get_obs", "times")
            /\ UNCHANGED << observation, table_is_obs_events >>
    /\ UNCHANGED << otherKernels, run, indexFiles, eventFiles, dirs, hdu_table,
                    events_in_memory, times, ephemeris_file, model,
                    timing_model, warned, toas, raw_phases, phases, table,
                    attached, new_obs, filename, file_path, new_hdu,
                    pulsar_hdu, reloaded >>

\* the event table behind observation.events: the file the index names
ObservationFile == EventsLocation(hdu_table, observation.obs_id)

\* observation = observations[0]; times = observation.events.time
ExtractTimes ==
    /\ pc = "times"
    /\ IF ObservationFile \in DOMAIN eventFiles
       THEN /\ times' = eventFiles[ObservationFile].cols["TIME"]
            /\ pc' = "get_model"
            /\ error' = error
       ELSE /\ Raise("times", "get_model")
            /\ times' = times
    /\ UNCHANGED << otherKernels, run, indexFiles, eventFiles, dirs,
                    hdu_table, observation,
                    events_in_memory, table_is_obs_events, ephemeris_file,
                    model, timing_model, warned, toas, raw_phases, phases,
                    table, attached, new_obs, filename, file_path, new_hdu,
                    pulsar_hdu, reloaded >>

\* ephemeris_file = "...par"; model = pmodels.get_model(ephemeris_file)
GetModel(f) ==
    /\ pc = "get_model"
    /\ ephemeris_file' = f
    /\ IF f \in DOMAIN ParFiles /\ ~ParFiles[f].JUMP
       THEN /\ model' = [PSR |-> ParFiles[f].PSR, START |-> ParFiles[f].START,
                          FINISH |-> ParFiles[f].FINISH,
                          TZRMJD |-> ParFiles[f].TZRMJD,
                          TZRSITE |-> ParFiles[f].TZRSITE, file |-> f]
            /\ pc' = "check_time"
            /\ error' = error
       ELSE /\ Raise("get_model", "check_time")
            /\ model' = model
    /\ UNCHANGED << otherKernels, run, indexFiles, eventFiles, dirs,
                    hdu_table, observation,
                    events_in_memory, table_is_obs_events, times,
                    timing_model, warned, toas, raw_phases, phases, table,
                    attached, new_obs, filename, file_path, new_hdu,
                    pulsar_hdu, reloaded >>

\* the window check_time compares the observation with
CheckedModel(tm) == model

\* the condition of the if of check_time
OutOfWindow(obs, tm) ==
    \/ CheckedModel(tm).START > obs.tstart
    \/ CheckedModel(tm).FINISH < obs.tstop

\* check_time raising where it logs
RaiseWhenOutOfWindow(logged) == IF logged THEN "aborted" ELSE "toas"

\* the cell the run goes on with after check_time
AfterCheckTime(logged) == "toas"

\* check_time(observation, tm)
CheckTime(tm) ==
    /\ pc = "check_time"
    /\ timing_model' = tm
    /\ warned' = OutOfWindow(observation, tm)
    /\ pc' = AfterCheckTime(warned')
    /\ UNCHANGED << otherKernels, run, error, indexFiles, eventFiles, dirs,
                    hdu_table,
                    observation, events_in_memory, table_is_obs_events, times,
                    ephemeris_file, model, toas, raw_phases, phases, table,
                    attached, new_obs, filename, file_path, new_hdu,
                    pulsar_hdu, reloaded >>

\* toas = toa.get_TOAs_array(times=times, obs="magic", ...): one TOA per time
GetTOAs ==
    /\ pc = "toas"
    /\ toas' = [i \in 1..Len(times) |-> [mjd |-> times[i], obs |-> "magic"]]
    /\ pc' = "phases"
    /\ UNCHANGED << otherKernels, run, error, indexFiles, eventFiles, dirs,
                    hdu_table,
                    observation, events_in_memory, table_is_obs_events, times,
                    ephemeris_file, model, timing_model, warned, raw_phases,
                    phases, table, attached, new_obs, filename, file_path,
                    new_hdu, pulsar_hdu, reloaded >>

\* the shift with <= for <: 0.0 is moved to 1.0
ShiftZeroToo(p) == [i \in 1..Len(p) |-> IF p[i] <= 0 THEN p[i] + One ELSE p[i]]

\* the shift with a condition on the whole array: one negative phase moves all
ShiftWholeArray(p) ==
    [i \in 1..Len(p) |->
        IF \E j \in 1..Len(p) : p[j] < 0 THEN p[i] + One ELSE p[i]]

\* the shift as a wrap over any number of cycles: phases mod 1.0
ShiftModulo(p) == [i \in 1..Len(p) |-> p[i] % One]

\* np.where(phases < 0.0, phases + 1.0, phases)
Shift(p) == [i \in 1..Len(p) |-> IF p[i] < 0 THEN p[i] + One ELSE p[i]]

\* phases = model.phase(toas, abs_phase=True)[1]; the shift.  The evaluator
\* returns one value per TOA; which one is left open, within S.
ComputePhases(S) ==
    /\ pc = "phases"
    /\ \E r \in SeqsOfLen(S, Len(toas)) :
          /\ raw_phases' = r
          /\ phases' = Shift(r)
    /\ pc' = "table"
    /\ UNCHANGED << otherKernels, run, error, indexFiles, eventFiles, dirs,
                    hdu_table,
                    observation, events_in_memory, table_is_obs_events, times,
                    ephemeris_file, model, timing_model, warned, toas, table,
                    attached, new_obs, filename, file_path, new_hdu,
                    pulsar_hdu, reloaded >>

\* what observation.events.table shows: the object `table` names when the
\* observation keeps its EventList in memory, the content of its file when
\* it reads the file anew on every access
ObservationEventsTable ==
    IF events_in_memory /\ table_is_obs_events
    THEN table
    ELSE eventFiles[ObservationFile]

\* table = observation.events.table
ExtractTable ==
    /\ pc = "table"
    /\ table' = ObservationEventsTable
    /\ table_is_obs_events' = TRUE
    /\ attached' = << >>
    /\ pc' = "add_column"
    /\ UNCHANGED << otherKernels, run, error, indexFiles, eventFiles, dirs,
                    hdu_table,
                    observation, events_in_memory, times, ephemeris_file,
                    model, timing_model, warned, toas, raw_phases, phases,
                    new_obs, filename, file_path, new_hdu, pulsar_hdu,
                    reloaded >>

\* the assignment adding a column whether or not the name is taken
AppendColumn(t, name, values) ==
    [t EXCEPT !.cols = Put(t.cols, name, values),
              !.colnames = Append(@, name)]

\* t[name] = values: a new column, or new values for an existing one
SetColumn(t, name, values) ==
    [t EXCEPT !.cols = Put(t.cols, name, values),
              !.colnames = IF name \in DOMAIN t.cols THEN @
                           ELSE Append(@, name)]

\* table["PHASE"] = phases.astype("float64")
AddPhaseColumn ==
    /\ pc = "add_column"
    /\ table' = SetColumn(table, "PHASE", phases)
    /\ pc' = "add_log"
    /\ UNCHANGED << otherKernels, run, error, indexFiles, eventFiles, dirs,
                    hdu_table,
                    observation, events_in_memory, table_is_obs_events, times,
                    ephemeris_file, model, timing_model, warned, toas,
                    raw_phases, phases, attached, new_obs, filename, file_path,
                    new_hdu, pulsar_hdu, reloaded >>

\* get_log: the provenance string; the clock is counted in runs
GetLog(ephem, phase_column_name) ==
    "COLUMN_PHASE: " \o phase_column_name
    \o "; EPHEM_FILE: " \o ephem
    \o "; PSRJ :" \o model.PSR
    \o "; START: " \o ToString(model.START)
    \o "; FINISH: " \o ToString(model.FINISH)
    \o "; TZRMJD: " \o ToString(model.TZRMJD)
    \o "; TZRSITE: " \o model.TZRSITE
    \o "; PHASE_OFFSET: default = 0"
    \o "; DATE: " \o ToString(run) \o ";"

\* t.meta = {key: value}: the assignment replacing the whole mapping
ReplaceMeta(t, key, value) == [t EXCEPT !.meta = (key :> value)]

\* t.meta[key] = value
SetMeta(t, key, value) == [t EXCEPT !.meta = Put(t.meta, key, value)]

\* phase_log = get_log(ephemeris_file, column); table.meta[key] = phase_log
AttachLog(key, column) ==
    LET phase_log == GetLog(ephemeris_file, column)
    IN  /\ table' = SetMeta(table, key, phase_log)
        /\ attached' = Append(attached, << key, phase_log >>)

\* the two cells as the notebook runs them: column "PHASE", key "PH_LOG"
AddPhaseLog ==
    /\ pc = "add_log"
    /\ AttachLog("PH_LOG", "PHASE")
    /\ pc' = "new_obs"
    /\ UNCHANGED << otherKernels, run, error, indexFiles, eventFiles, dirs,
                    hdu_table,
                    observation, events_in_memory, table_is_obs_events, times,
                    ephemeris_file, model, timing_model, warned, toas,
                    raw_phases, phases, new_obs, filename, file_path, new_hdu,
                    pulsar_hdu, reloaded >>

\* new_event_list = EventList(table); new_obs = observation.copy(...)
NewObservation ==
    /\ pc = "new_obs"
    /\ new_obs' = [obs_id |-> observation.obs_id, events |-> table]
    /\ pc' = "define_output"
    /\ UNCHANGED << otherKernels, run, error, indexFiles, eventFiles, dirs,
                    hdu_table,
                    observation, events_in_memory, table_is_obs_events, times,
                    ephemeris_file, model, timing_model, warned, toas,
                    raw_phases, phases, table, attached, filename, file_path,
                    new_hdu, pulsar_hdu, reloaded >>

\* f"dl3_pulsar_{observation.obs_id:04d}.fits.gz"
PulsarFileName(id) == "dl3_pulsar_" \o Pad4(id) \o ".fits.gz"

\* the persistence cells with the index written before the event file
IndexBeforeEvents(cell) ==
    CASE cell = "define_output" -> "copy_hdu"
      [] cell = "write_hdu" -> "write_events"
      [] cell = "write_events" -> "open_pulsar"

\* the order of the persistence cells: the cell that follows a cell
CellAfter(cell) ==
    CASE cell = "define_output" -> "write_events"
      [] cell = "write_events" -> "copy_hdu"
      [] cell = "write_hdu" -> "open_pulsar"

\* filename, file_path and Path(output_path).mkdir(...)
DefineOutput ==
    /\ pc = "define_output"
    /\ filename' = PulsarFileName(observation.obs_id)
    /\ file_path' = output_path \o filename'
    /\ dirs' = dirs \cup {output_path}
    /\ pc' = CellAfter("define_output")
    /\ UNCHANGED << otherKernels, run, error, indexFiles, eventFiles,
                    hdu_table,
                    observation, events_in_memory, table_is_obs_events, times,
                    ephemeris_file, model, timing_model, warned, toas,
                    raw_phases, phases, table, attached, new_obs, new_hdu,
                    pulsar_hdu, reloaded >>

\* new_obs.write(path=file_path, include_irfs=False, overwrite=True)
WriteEvents ==
    /\ pc = "write_events"
    /\ eventFiles' = Put(eventFiles, file_path, new_obs.events)
    /\ pc' = CellAfter("write_events")
    /\ UNCHANGED << otherKernels, run, error, indexFiles, dirs, hdu_table,
                    observation,
                    events_in_memory, table_is_obs_events, times,
                    ephemeris_file, model, timing_model, warned, toas,
                    raw_phases, phases, table, attached, new_obs, filename,
                    file_path, new_hdu, pulsar_hdu, reloaded >>

\* new_hdu = data_store.hdu_table.copy()
CopyHdu ==
    /\ pc = "copy_hdu"
    /\ new_hdu' = hdu_table
    /\ pc' = "patch_hdu"
    /\ UNCHANGED << otherKernels, run, error, indexFiles, eventFiles, dirs,
                    hdu_table,
                    observation, events_in_memory, table_is_obs_events, times,
                    ephemeris_file, model, timing_model, warned, toas,
                    raw_phases, phases, table, attached, new_obs, filename,
                    file_path, pulsar_hdu, reloaded >>

\* the condition without the test of the observation
IsEventsEntry(entry, obs_id) == entry.HDU_NAME = "EVENTS"

\* the condition with the HDU type in place of the HDU name
IsEventsTypeEntry(entry, obs_id) ==
    entry.HDU_NAME = "events" /\ entry.OBS_ID = obs_id

\* the condition of the if in the loop over the rows
IsTargetEntry(entry, obs_id) ==
    entry.HDU_NAME = "EVENTS" /\ entry.OBS_ID = obs_id

\* for entry in new_hdu: if ...: entry["FILE_DIR"] = ...; entry["FILE_NAME"] = ...
PatchTable(tbl, obs_id, file_dir, file_name) ==
    [i \in 1..Len(tbl) |->
        IF IsTargetEntry(tbl[i], obs_id)
        THEN [tbl[i] EXCEPT !.FILE_DIR = file_dir, !.FILE_NAME = file_name]
        ELSE tbl[i]]

\* the directory of the store in place of the output directory
PatchedDirIsStoreDir == "./"

\* "./" + str(output_directory)
PatchedFileDir == "./" \o output_directory

\* new_hdu = data_store.hdu_table, with no copy taken: one table, two names
NoCopyTaken == TRUE

\* is new_hdu the table object of the data store: .copy() makes it another
NewHduIsStoreTable == FALSE

\* the patch loop; an entry assigned to is an entry of the table new_hdu names
PatchHdu ==
    /\ pc = "patch_hdu"
    /\ new_hdu' = PatchTable(new_hdu, observation.obs_id,
                             PatchedFileDir, filename)
    /\ hdu_table' = IF NewHduIsStoreTable THEN new_hdu' ELSE hdu_table
    /\ pc' = "write_hdu"
    /\ UNCHANGED << otherKernels, run, error, indexFiles, eventFiles, dirs,
                    observation, events_in_memory, table_is_obs_events, times,
                    ephemeris_file, model, timing_model, warned, toas,
                    raw_phases, phases, table, attached, new_obs, filename,
                    file_path, pulsar_hdu, reloaded >>

\* the name of the store's own index
SameNameAsOriginal == datastore_dir \o HduIndexName

\* datastore_dir + "hdu-index-pulsar.fits.gz"
NewIndexPath == datastore_dir \o PulsarIndexName

\* new_hdu.write(datastore_dir + "hdu-index-pulsar.fits.gz", overwrite=True)
WriteHdu ==
    /\ pc = "write_hdu"
    /\ indexFiles' = Put(indexFiles, NewIndexPath, new_hdu)
    /\ pc' = CellAfter("write_hdu")
    /\ UNCHANGED << otherKernels, run, error, eventFiles, dirs, hdu_table,
                    observation,
                    events_in_memory, table_is_obs_events, times,
                    ephemeris_file, model, timing_model, warned, toas,
                    raw_phases, phases, table, attached, new_obs, filename,
                    file_path, new_hdu, pulsar_hdu, reloaded >>

\* pulsar_datastore = DataStore.from_dir(DL3_dir, hdu_table_filename=...)
OpenPulsarStore ==
    /\ pc = "open_pulsar"
    /\ pulsar_hdu' = indexFiles[Resolve(DL3_dir, "", PulsarIndexName)]
    /\ pc' = "get_pulsar_obs"
    /\ UNCHANGED << otherKernels, run, error, indexFiles, eventFiles, dirs,
                    hdu_table,
                    observation, events_in_memory, table_is_obs_events, times,
                    ephemeris_file, model, timing_model, warned, toas,
                    raw_phases, phases, table, attached, new_obs, filename,
                    file_path, new_hdu, reloaded >>

\* the rows an index holds for the IRFs of an observation
IrfEntries(tbl, id) ==
    SelectSeq(tbl, LAMBDA r : r.OBS_ID = id /\ r.HDU_TYPE # "events")

\* observations = pulsar_datastore.get_observations([id], ...);
\* observations[0].available_hdus; observations[0].events.table
GetPulsarObservations ==
    /\ pc = "get_pulsar_obs"
    /\ reloaded' = [obs_id |-> observation.obs_id,
                     irfs |-> IrfEntries(pulsar_hdu, observation.obs_id),
                     events |-> eventFiles[EventsLocation(pulsar_hdu,
                                                          observation.obs_id)]]
    /\ pc' = "done"
    /\ UNCHANGED << otherKernels, run, error, indexFiles, eventFiles, dirs,
                    hdu_table,
                    observation, events_in_memory, table_is_obs_events, times,
                    ephemeris_file, model, timing_model, warned, toas,
                    raw_phases, phases, table, attached, new_obs, filename,
                    file_path, new_hdu, pulsar_hdu >>

\* the user starts the workflow again, for the same or another observation
Rerun ==
    /\ pc \in {"done", "aborted"}
    /\ run < MaxRuns
    /\ run' = run + 1
    /\ error' = ""
    /\ pc' = "get_obs"
    /\ UNCHANGED << otherKernels, indexFiles, eventFiles, dirs, hdu_table,
                    observation,
                    events_in_memory, table_is_obs_events, times,
                    ephemeris_file, model, timing_model, warned, toas,
                    raw_phases, phases, table, attached, new_obs, filename,
                    file_path, new_hdu, pulsar_hdu, reloaded >>

(***************************************************************************)
(* The interactive model editing notebook                                  *)
(* (src/recipes/interactive-model-editing/interactive-model-editing.ipynb).*)
(* A parameter is a record [model, name, value, frozen]; a frame is a      *)
(* sequence of rows, each row carrying the index label idx it was given    *)
(* when the frame was built.                                               *)
(***************************************************************************)
\* Models.read("$GAMMAPY_DATA/tests/models/gc_example_models.yaml")
GcExampleModels ==
    << [model |-> "gc", name |-> "index", value |-> 2, frozen |-> FALSE],
       [model |-> "gc", name |-> "amplitude", value |-> 3, frozen |-> FALSE],
       [model |-> "g09", name |-> "index", value |-> 1, frozen |-> TRUE] >>

\* the values a user types into a cell of the value column
ParameterValues == 1..4

\* models.to_parameters_table().to_pandas(): one row per parameter, in the
\* order of models.parameters, labelled 0, 1, 2, ...
ToParametersTable(ms) ==
    [k \in 1..Len(ms) |->
        [idx |-> k - 1, model |-> ms[k].model, name |-> ms[k].name,
         value |-> ms[k].value, frozen |-> ms[k].frozen]]

NoWidget ==
    [unfiltered |-> << >>, shown |-> << >>, sort_field |-> "",
     sort_ascending |-> TRUE, changes |-> 0]

\* qgrid.show_grid(df, ...): the widget works on its own copy of the frame
ShowGrid(frame) ==
    [unfiltered |-> frame, shown |-> frame, sort_field |-> "",
     sort_ascending |-> TRUE, changes |-> 0]

\* the sort key of a row
SortKey(r, field) ==
    IF field = "value" THEN r.value
    ELSE IF field = "frozen" THEN (IF r.frozen THEN 1 ELSE 0)
    ELSE r.idx

\* the orders sort_values can give the rows: every arrangement of them in
\* which the keys do not decrease (do not increase when descending)
Orderings(rows, field, ascending) ==
    LET n == Len(rows)
        perms == { f \in [1..n -> 1..n] :
                     \A i, j \in 1..n : i # j => f[i] # f[j] }
        inOrder(f) ==
            \A i \in 1..n : \A j \in 1..n :
                i < j =>
                    IF field = "" THEN rows[f[i]].idx < rows[f[j]].idx
                    ELSE IF ascending
                    THEN SortKey(rows[f[i]], field) <= SortKey(rows[f[j]], field)
                    ELSE SortKey(rows[f[i]], field) >= SortKey(rows[f[j]], field)
    IN  { [i \in 1..n |-> rows[f[i]]] : f \in { g \in perms : inOrder(g) } }

\* the cell of the row labelled i set to v, in a frame
SetCell(frame, i, column, v) ==
    [k \in 1..Len(frame) |->
        IF frame[k].idx = i
        THEN IF column = "value" THEN [frame[k] EXCEPT !.value = v]
             ELSE [frame[k] EXCEPT !.frozen = v]
        ELSE frame[k]]

\* qgrid_widget.get_changed_df(): the frame as the grid shows it, sorted,
\* filtered and edited, without the index labels (Table.from_pandas)
GetChangedDf(w) ==
    [k \in 1..Len(w.shown) |->
        [model |-> w.shown[k].model, name |-> w.shown[k].name,
         value |-> w.shown[k].value, frozen |-> w.shown[k].frozen]]

\* the pulsar notebook's kernel and the disk, untouched by this notebook
pulsarKernel ==
    << run, error, indexFiles, eventFiles, dirs, hdu_table, observation,
       events_in_memory, table_is_obs_events, times, ephemeris_file, model,
       timing_model, warned, toas, raw_phases, phases, table, attached,
       new_obs, filename, file_path, new_hdu, pulsar_hdu, reloaded >>

\* models = Models.read(...); df = ...to_pandas(); qgrid_widget = show_grid(df)
ReadModels ==
    /\ pc = "read_models"
    /\ models' = GcExampleModels
    /\ df' = ToParametersTable(models')
    /\ qgrid_widget' = ShowGrid(df')
    /\ pc' = "grid"
    /\ UNCHANGED << pulsarKernel, mcmcKernel, plotKernel, qgrid_df >>

\* the grid is on screen: before the load cell, or after it
GridShown ==
    /\ pc \in {"grid", "loaded"}
    /\ qgrid_widget.changes < MaxChanges

\* the user double-clicks a cell of a shown row and types a value
EditCell(i, column, v) ==
    /\ GridShown
    /\ \E k \in 1..Len(qgrid_widget.shown) : qgrid_widget.shown[k].idx = i
    /\ qgrid_widget' =
          [qgrid_widget EXCEPT
              !.shown = SetCell(@, i, column, v),
              !.unfiltered = SetCell(@, i, column, v),
              !.changes = @ + 1]
    /\ pc' = "grid"
    /\ UNCHANGED << pulsarKernel, mcmcKernel, plotKernel, models, df, qgrid_df >>

\* the user clicks a column header
ChangeSort(field, ascending) ==
    /\ GridShown
    /\ \E rows \in Orderings(qgrid_widget.shown, field, ascending) :
          qgrid_widget' =
              [qgrid_widget EXCEPT
                  !.shown = rows,
                  !.sort_field = field,
                  !.sort_ascending = ascending,
                  !.changes = @ + 1]
    /\ pc' = "grid"
    /\ UNCHANGED << pulsarKernel, mcmcKernel, plotKernel, models, df, qgrid_df >>

\* the user filters on the model column ("" shows every row again)
ChangeFilter(m) ==
    /\ GridShown
    /\ LET kept == SelectSeq(qgrid_widget.unfiltered,
                             LAMBDA r : m = "" \/ r.model = m)
       IN  \E rows \in Orderings(kept, qgrid_widget.sort_field,
                                 qgrid_widget.sort_ascending) :
              qgrid_widget' =
                  [qgrid_widget EXCEPT !.shown = rows, !.changes = @ + 1]
    /\ pc' = "grid"
    /\ UNCHANGED << pulsarKernel, mcmcKernel, plotKernel, models, df, qgrid_df >>

\* models.update_parameters_from_table(t): the k-th row of the table is
\* given to the k-th parameter (value, frozen)
UpdateParametersFromTable(ms, t) ==
    [k \in 1..Len(ms) |->
        IF k <= Len(t)
        THEN [ms[k] EXCEPT !.value = t[k].value, !.frozen = t[k].frozen]
        ELSE ms[k]]

\* qgrid_df = qgrid_widget.get_changed_df();
\* models.update_parameters_from_table(Table.from_pandas(qgrid_df))
LoadChanged ==
    /\ pc = "grid"
    /\ qgrid_df' = GetChangedDf(qgrid_widget)
    /\ models' = UpdateParametersFromTable(models, qgrid_df')
    /\ pc' = "loaded"
    /\ UNCHANGED << pulsarKernel, mcmcKernel, plotKernel, df, qgrid_widget >>

\* the editing notebook's kernel before its first cell
EditKernelFresh ==
    /\ models = << >>
    /\ df = << >>
    /\ qgrid_widget = NoWidget
    /\ qgrid_df = << >>

(***************************************************************************)
(* The MCMC notebook (src/unnamed/part_000).  dataset.models.parameters is *)
(* a sequence of records [model, name, value, frozen, prior]; values are   *)
(* whole numbers of a unit fixed per parameter (index, norm, reference,    *)
(* alpha: 1/10; amplitude: 1e-13; lambda_, sigma: 1/100), the factors of   *)
(* randomize_walkers are counted in 1/100.                                 *)
(* A sampler is the record of its starting positions and of its calls of   *)
(* lnprob; the chain it returns is an array indexed by step, walker and    *)
(* free parameter, with the numbers of steps and of walkers of the cells.  *)
(***************************************************************************)
Par(m, n, v, f) ==
    [model |-> m, name |-> n, value |-> v, frozen |-> f, prior |-> ""]

\* Models([sky_model_simu, bkg_model]) as the constructors leave it
SimulatedParameters ==
    << Par("source", "index", 20, FALSE),
       Par("source", "amplitude", 30, FALSE),
       Par("source", "reference", 10, TRUE),
       Par("source", "lambda_", 5, FALSE),
       Par("source", "alpha", 10, TRUE),
       Par("source", "lon_0", 0, FALSE),
       Par("source", "lat_0", 0, FALSE),
       Par("source", "sigma", 20, FALSE),
       Par("source", "e", 0, TRUE),
       Par("source", "phi", 0, TRUE),
       Par("dataset-mcmc-bkg", "norm", 10, FALSE),
       Par("dataset-mcmc-bkg", "tilt", 0, TRUE),
       Par("dataset-mcmc-bkg", "reference", 10, TRUE) >>

\* parameters[name]: the first parameter of that name
ParIdx(ps, name) == Min({ k \in 1..Len(ps) : ps[k].name = name })

\* parameters[name].frozen = b
SetFrozen(ps, name, b) == [ps EXCEPT ![ParIdx(ps, name)].frozen = b]

\* parameters[name].prior = pr
SetPrior(ps, name, pr) == [ps EXCEPT ![ParIdx(ps, name)].prior = pr]

\* parameters[name].value = v
SetValue(ps, name, v) == [ps EXCEPT ![ParIdx(ps, name)].value = v]

\* init_model without the line that sets lambda_
InitModelKeepsLambda(ps) ==
    LET a == SetFrozen(ps, "norm", FALSE)
        b == SetFrozen(a, "sigma", TRUE)
        c == SetFrozen(b, "lon_0", TRUE)
        d == SetFrozen(c, "lat_0", TRUE)
        e == SetFrozen(d, "tilt", TRUE)
        f == SetPrior(e, "index", "GaussianPrior(mu=2.0, sigma=0.5)")
        g == SetPrior(f, "norm", "GaussianPrior(mu=1.0, sigma=0.1)")
        h == SetPrior(g, "lambda_", "UniformPrior(min=1e-2, max=1, weight=10)")
        i == SetPrior(h, "amplitude",
                      "UniformPrior(min=3e-13, max=3e-11, weight=10)")
        j == SetPrior(i, "sigma", "UniformPrior(min=0.01, max=0.5, weight=10)")
        k == SetValue(j, "index", 15)
        l == SetValue(k, "amplitude", 50)
    IN  SetValue(l, "norm", 9)

\* init_model without the line that freezes sigma
InitModelLeavesSigmaFree(ps) ==
    LET a == SetFrozen(ps, "norm", FALSE)
        c == SetFrozen(a, "lon_0", TRUE)
        d == SetFrozen(c, "lat_0", TRUE)
        e == SetFrozen(d, "tilt", TRUE)
        f == SetPrior(e, "index", "GaussianPrior(mu=2.0, sigma=0.5)")
        g == SetPrior(f, "norm", "GaussianPrior(mu=1.0, sigma=0.1)")
        h == SetPrior(g, "lambda_", "UniformPrior(min=1e-2, max=1, weight=10)")
        i == SetPrior(h, "amplitude",
                      "UniformPrior(min=3e-13, max=3e-11, weight=10)")
        j == SetPrior(i, "sigma", "UniformPrior(min=0.01, max=0.5, weight=10)")
        k == SetValue(j, "index", 15)
        l == SetValue(k, "amplitude", 50)
        m == SetValue(l, "lambda_", 50)
    IN  SetValue(m, "norm", 9)

\* init_model(): the assignments of its body, in order
InitModel(ps) ==
    LET a == SetFrozen(ps, "norm", FALSE)
        b == SetFrozen(a, "sigma", TRUE)
        c == SetFrozen(b, "lon_0", TRUE)
        d == SetFrozen(c, "lat_0", TRUE)
        e == SetFrozen(d, "tilt", TRUE)
        f == SetPrior(e, "index", "GaussianPrior(mu=2.0, sigma=0.5)")
        g == SetPrior(f, "norm", "GaussianPrior(mu=1.0, sigma=0.1)")
        h == SetPrior(g, "lambda_", "UniformPrior(min=1e-2, max=1, weight=10)")
        i == SetPrior(h, "amplitude",
                      "UniformPrior(min=3e-13, max=3e-11, weight=10)")
        j == SetPrior(i, "sigma", "UniformPrior(min=0.01, max=0.5, weight=10)")
        k == SetValue(j, "index", 15)
        l == SetValue(k, "amplitude", 50)
        m == SetValue(l, "lambda_", 50)
    IN  SetValue(m, "norm", 9)

\* dataset.models.parameters.free_parameters: the parameters not frozen,
\* in the order of parameters
FreeParameters(ps) == SelectSeq(ps, LAMBDA q : ~q.frozen)

\* [free_par.value for free_par in ...free_parameters]
FreeValues(ps) ==
    [i \in 1..Len(FreeParameters(ps)) |-> FreeParameters(ps)[i].value]

\* [free_par.name for free_par in ...free_parameters]
FreeNames(ps) ==
    [i \in 1..Len(FreeParameters(ps)) |-> FreeParameters(ps)[i].name]

nwalkers == 8

\* rng.normal(1, 0.03, size=(nwalkers, len(p0))): the draws of a seeded
\* generator, one of a few arrays of factors around 1.00
RandomizeArrays(ndim) ==
    { [w \in 1..nwalkers |-> [d \in 1..ndim |-> 97 + ((w * a + d) % 7)]] :
        a \in 1..2 }

\* np.tile(p0, [nwalkers, 1]) * randomize_walkers
TileTimes(start, factors) ==
    [w \in 1..Len(factors) |->
        [d \in 1..Len(factors[w]) |-> start[d] * factors[w][d]]]

\* dataset.stat_sum(): a number decided by the parameter values
StatSum(ps) ==
    LET dev(k) == IF ps[k].value >= SimulatedParameters[k].value
                  THEN ps[k].value - SimulatedParameters[k].value
                  ELSE SimulatedParameters[k].value - ps[k].value
        sum[k \in 0..Len(ps)] == IF k = 0 THEN 0 ELSE sum[k - 1] + dev(k)
    IN  sum[Len(ps)]

\* the number of free parameters before position k
FreeBefore(ps, k) == Cardinality({ j \in 1..(k - 1) : ~ps[j].frozen })

\* a loop over all the parameters instead: zip(pars, parameters)
AssignInOrder(ps, pars) ==
    [k \in 1..Len(ps) |->
        IF k <= Len(pars) THEN [ps[k] EXCEPT !.value = pars[k]] ELSE ps[k]]

\* the loop of lnprob: for value, parameter in zip(pars, free_parameters)
AssignFree(ps, pars) ==
    [k \in 1..Len(ps) |->
        IF ~ps[k].frozen /\ FreeBefore(ps, k) < Len(pars)
        THEN [ps[k] EXCEPT !.value = pars[FreeBefore(ps, k) + 1]]
        ELSE ps[k]]

\* the value lnprob returns: -dataset.stat_sum() after the assignment
Lnprob(ps, pars) == 0 - StatSum(AssignFree(ps, pars))

\* positions in the space of the four free parameters: the simulated
\* values, the values of init_model and a point between them
Positions ==
    << << 20, 30, 5, 10 >>, << 15, 50, 50, 9 >>, << 18, 41, 20, 11 >> >>

\* the positions a sampler proposes for a walker
Proposals == { Positions[i] : i \in 1..Len(Positions) }

nrun_emcee == 2000
nrun_zeus == 1000

\* get_chain() of a sampler after run_mcmc(..., nsteps): an array of shape
\* (nsteps, nwalkers, ndim), the position of every walker after every step;
\* one of a few such arrays
Chains(nsteps) ==
    { [step \in 1..nsteps |->
          [w \in 1..nwalkers |->
              Positions[((c + step + w) % Len(Positions)) + 1]]] :
        c \in 1..Len(Positions) }

\* a sampler before its construction; pars and lnp are the argument and
\* the result of its last call of lnprob
NoSampler == [start |-> << >>, calls |-> 0, pars |-> << >>, lnp |-> 0]

McmcKernelFresh ==
    /\ parameters = << >>
    /\ models_true = << >>
    /\ p0 = << >>
    /\ labels = << >>
    /\ randomize_walkers = << >>
    /\ p0_walkers = << >>
    /\ sampler = NoSampler
    /\ sampler2 = NoSampler
    /\ samples1 = << >>
    /\ samples2 = << >>
    /\ corner_samples = << >>
    /\ red_line = << >>
    /\ raised = ""

\* models = Models([sky_model_simu, bkg_model]); models_true = models.copy();
\* dataset.models = models
DefineModels ==
    /\ pc = "define_models"
    /\ parameters' = SimulatedParameters
    /\ models_true' = SimulatedParameters
    /\ pc' = "init_model"
    /\ UNCHANGED << pulsarKernel, editKernel, plotKernel, p0, labels,
                    randomize_walkers, p0_walkers, sampler, sampler2 >>

\* the cell that defines init_model and calls it
InitModelCell ==
    /\ pc = "init_model"
    /\ parameters' = InitModel(parameters)
    /\ pc' = "emcee"
    /\ UNCHANGED << pulsarKernel, editKernel, plotKernel, models_true, p0,
                    labels, randomize_walkers, p0_walkers, sampler, sampler2 >>

\* the emcee cell up to run_mcmc(p0_walkers, ...)
EmceeCell ==
    /\ pc = "emcee"
    /\ parameters' = InitModel(parameters)
    /\ p0' = FreeValues(parameters')
    /\ labels' = FreeNames(parameters')
    /\ randomize_walkers' \in RandomizeArrays(Len(p0'))
    /\ p0_walkers' = TileTimes(p0', randomize_walkers')
    /\ sampler' = [start |-> p0_walkers', calls |-> 0, pars |-> << >>,
                   lnp |-> 0]
    /\ pc' = "emcee_run"
    /\ UNCHANGED << pulsarKernel, editKernel, plotKernel, models_true,
                    sampler2 >>

\* the emcee sampler calls lnprob(pars, dataset)
EmceeLnprob(pars) ==
    /\ pc = "emcee_run"
    /\ sampler.calls < MaxCalls
    /\ parameters' = AssignFree(parameters, pars)
    /\ sampler' = [sampler EXCEPT !.calls = @ + 1,
                                  !.pars = pars,
                                  !.lnp = Lnprob(parameters, pars)]
    /\ UNCHANGED << pc, pulsarKernel, editKernel, plotKernel, models_true,
                    p0, labels, randomize_walkers, p0_walkers, sampler2 >>

\* run_mcmc returns, the calls of lnprob above being its last ones;
\* samples1 = sampler.get_chain()
EmceeFinish(chain) ==
    /\ pc = "emcee_run"
    /\ samples1' = chain
    /\ pc' = "zeus"
    /\ UNCHANGED << pulsarKernel, editKernel, mcmcKernel, samples2,
                    corner_samples, red_line, raised >>

\* the zeus cell up to sampler2.run_mcmc(p0_walkers, ...)
ZeusCell ==
    /\ pc = "zeus"
    /\ parameters' = InitModel(parameters)
    /\ p0' = FreeValues(parameters')
    /\ p0_walkers' = TileTimes(p0', randomize_walkers)
    /\ sampler2' = [start |-> p0_walkers', calls |-> 0, pars |-> << >>,
                    lnp |-> 0]
    /\ pc' = "zeus_run"
    /\ UNCHANGED << pulsarKernel, editKernel, plotKernel, models_true,
                    labels, randomize_walkers, sampler >>

\* the zeus sampler calls lnprob(pars, dataset)
ZeusLnprob(pars) ==
    /\ pc = "zeus_run"
    /\ sampler2.calls < MaxCalls
    /\ parameters' = AssignFree(parameters, pars)
    /\ sampler2' = [sampler2 EXCEPT !.calls = @ + 1,
                                    !.pars = pars,
                                    !.lnp = Lnprob(parameters, pars)]
    /\ UNCHANGED << pc, pulsarKernel, editKernel, plotKernel, models_true,
                    p0, labels, randomize_walkers, p0_walkers, sampler >>

\* run_mcmc returns, the calls of lnprob above being its last ones;
\* samples2 = sampler2.get_chain()
ZeusFinish(chain) ==
    /\ pc = "zeus_run"
    /\ samples2' = chain
    /\ pc' = "mcmc_done"
    /\ UNCHANGED << pulsarKernel, editKernel, mcmcKernel, samples1,
                    corner_samples, red_line, raised >>

(***************************************************************************)
(* The cells that plot the chains.  Python indices start at 0, those of    *)
(* the sequences here at 1.                                                *)
(***************************************************************************)
nburn1 == 800
nburn2 == 150
nburn == 100
nmodel == 100

\* a.shape[1] and a.shape[2] of an array of positions
ChainWalkers(a) == IF a = << >> THEN 0 ELSE Len(a[1])

ChainDim(a) == IF ChainWalkers(a) = 0 THEN 0 ELSE Len(a[1][1])

\* a[nb:, :, :]
FromStep(a, nb) == SubSeq(a, nb + 1, Len(a))

\* a.size
ArraySize(a) == Len(a) * ChainWalkers(a) * ChainDim(a)

\* a.reshape((-1, ncol)): the elements of a in row-major order, ncol a row
Reshape(a, ncol) ==
    LET W == ChainWalkers(a)
        D == ChainDim(a)
        flat(k) == a[(k \div (W * D)) + 1][((k \div D) % W) + 1][(k % D) + 1]
    IN  [r \in 1..(ArraySize(a) \div ncol) |->
            [j \in 1..ncol |-> flat((r - 1) * ncol + j - 1)]]

\* the trace plot: samples1[:, :, idx] and samples2[:, :, idx] for the idx
\* of every label
TracePlot ==
    /\ pc = "mcmc_done"
    /\ raised' = IF \A idx \in 0..(Len(labels) - 1) :
                       idx < ChainDim(samples1) /\ idx < ChainDim(samples2)
                 THEN "" ELSE "IndexError"
    /\ pc' = "corner"
    /\ UNCHANGED << pulsarKernel, editKernel, mcmcKernel, samples1, samples2,
                    corner_samples, red_line >>

\* the corner plots: s = samples1[nburn1:, :, :].reshape((-1, len(labels))),
\* then the same of samples2 with nburn2
CornerPlots ==
    /\ pc = "corner"
    /\ raised = ""
    /\ LET a1 == FromStep(samples1, nburn1)
           a2 == FromStep(samples2, nburn2)
       IN  IF ArraySize(a1) % Len(labels) # 0
           THEN raised' = "ValueError" /\ UNCHANGED corner_samples
           ELSE IF ArraySize(a2) % Len(labels) # 0
           THEN /\ raised' = "ValueError"
                /\ corner_samples' = Reshape(a1, Len(labels))
           ELSE /\ raised' = ""
                /\ corner_samples' = Reshape(a2, Len(labels))
    /\ pc' = "dispersion"
    /\ UNCHANGED << pulsarKernel, editKernel, mcmcKernel, samples1, samples2,
                    red_line >>

\* the body of the loops of the dispersion cell: pars = samples[n, nwalk, :],
\* then free_par.value = pars[i] for every free parameter of dataset.models
SetFromSample(st, samples, n, nwalk) ==
    IF ~(n < Len(samples) /\ nwalk < ChainWalkers(samples))
    THEN [st EXCEPT !.raised = "IndexError"]
    ELSE LET pars == samples[n + 1][nwalk + 1]
         IN  [ps |-> AssignFree(st.ps, pars),
              raised |-> IF Len(FreeParameters(st.ps)) > Len(pars)
                         THEN "IndexError" ELSE ""]

RECURSIVE SampleLoop(_, _, _, _)
\* for n in range(nburn, nburn + nmodel), from n on, an exception ending it
SampleLoop(st, samples, nwalk, n) ==
    IF n >= nburn + nmodel \/ st.raised # "" THEN st
    ELSE SampleLoop(SetFromSample(st, samples, n, nwalk), samples, nwalk,
                    n + 1)

RECURSIVE WalkerLoop(_, _, _)
\* for nwalk in range(0, nwalkers), from nwalk on, an exception ending it
WalkerLoop(st, samples, nwalk) ==
    IF nwalk >= nwalkers \/ st.raised # "" THEN st
    ELSE WalkerLoop(SampleLoop(st, samples, nwalk, nburn), samples,
                    nwalk + 1)

\* sky_model_simu: the object that is dataset.models["source"], since
\* Models([sky_model_simu, bkg_model]) and the setter of dataset.models keep
\* the model objects they are given
SkyModelSimu(ps) == SelectSeq(ps, LAMBDA q : q.model = "source")

SpectralNames == {"index", "amplitude", "reference", "lambda_", "alpha"}

\* model.spectral_model: the parameters its curve is drawn from
SpectralModel(m) ==
    LET sp == SelectSeq(m, LAMBDA q : q.name \in SpectralNames)
    IN  [k \in 1..Len(sp) |-> [name |-> sp[k].name, value |-> sp[k].value]]

\* the dispersion cell: samples = samples2, the loops that draw a grey curve
\* for each sample, then sky_model_simu.spectral_model.plot(color="red")
DispersionPlot ==
    /\ pc = "dispersion"
    /\ raised = ""
    /\ LET after == WalkerLoop([ps |-> parameters, raised |-> ""],
                               samples2, 0)
       IN  /\ parameters' = after.ps
           /\ raised' = after.raised
           /\ red_line' = IF after.raised = ""
                          THEN SpectralModel(SkyModelSimu(after.ps))
                          ELSE red_line
    /\ pc' = "fun_zone"
    /\ UNCHANGED << pulsarKernel, editKernel, models_true, p0, labels,
                    randomize_walkers, p0_walkers, sampler, sampler2,
                    samples1, samples2, corner_samples >>

\* the kernels of the other notebooks before their first cells
OtherKernelsFresh ==
    /\ EditKernelFresh
    /\ McmcKernelFresh

(***************************************************************************)
(* The whole workflow, from a fresh kernel and the store as downloaded.    *)
(***************************************************************************)
NoReload == [obs_id |-> 0, irfs |-> << >>, events |-> NoTable]

\* groups of kernel variables before the cells that set them have run
NoObservationYet ==
    /\ observation = NoObservation
    /\ times = << >>

NoModelYet ==
    /\ ephemeris_file = ""
    /\ model = NoModel
    /\ timing_model = NoModel
    /\ warned = FALSE

NoPhasesYet ==
    /\ toas = << >>
    /\ raw_phases = << >>
    /\ phases = << >>

NoTableYet ==
    /\ table_is_obs_events = FALSE
    /\ table = NoTable
    /\ attached = << >>

NoOutputYet ==
    /\ new_obs = [obs_id |-> 0, events |-> NoTable]
    /\ filename = ""
    /\ file_path = ""
    /\ new_hdu = << >>
    /\ pulsar_hdu = << >>
    /\ reloaded = NoReload

FreshKernel ==
    /\ run = 1
    /\ error = ""
    /\ hdu_table = << >>
    /\ NoObservationYet
    /\ NoModelYet
    /\ NoPhasesYet
    /\ NoTableYet
    /\ NoOutputYet

DiskAsDownloaded ==
    /\ indexFiles = (Resolve(DL3_dir, "", HduIndexName) :> StoreIndex)
    /\ eventFiles = [p \in { Resolve(DL3_dir, "./", OrigFileName(id)) :
                                id \in GoodObsIds } |->
                        OrigEvents(CHOOSE id \in GoodObsIds :
                                     Resolve(DL3_dir, "./", OrigFileName(id)) = p)]
    /\ dirs = {datastore_dir}

Init ==
    /\ pc = "open_store"
    /\ events_in_memory \in BOOLEAN
    /\ FreshKernel
    /\ DiskAsDownloaded
    /\ OtherKernelsFresh

Next ==
    \/ OpenStore
    \/ \E id \in RequestedObsIds : GetObservations(id)
    \/ ExtractTimes
    \/ \E f \in ParNames : GetModel(f)
    \/ CheckTime(model)
    \/ GetTOAs
    \/ ComputePhases(WorkflowRawPhases)
    \/ ExtractTable
    \/ AddPhaseColumn
    \/ AddPhaseLog
    \/ NewObservation
    \/ DefineOutput
    \/ WriteEvents
    \/ CopyHdu
    \/ PatchHdu
    \/ WriteHdu
    \/ OpenPulsarStore
    \/ GetPulsarObservations
    \/ Rerun

Spec == Init /\ [][Next]_vars

(***************************************************************************)
(* The phase cells on a synthetic observation: the kernel as GetTOAs       *)
(* leaves it, for an event list of up to MaxEvents timestamps, and any     *)
(* evaluator output over RawPhases.                                        *)
(***************************************************************************)
SyntheticObservation == [obs_id |-> 7, tstart |-> 1, tstop |-> 2]

SyntheticEvents(ts) ==
    [colnames |-> << "TIME" >>,
     cols |-> ("TIME" :> ts),
     meta |-> ("OBS_ID" :> ToString(SyntheticObservation.obs_id))]

ParsedModel(f) ==
    [PSR |-> ParFiles[f].PSR, START |-> ParFiles[f].START,
     FINISH |-> ParFiles[f].FINISH, TZRMJD |-> ParFiles[f].TZRMJD,
     TZRSITE |-> ParFiles[f].TZRSITE, file |-> f]

PhaseInit ==
    \E n \in 0..MaxEvents :
        LET ts == [i \in 1..n |-> i]
        IN  /\ pc = "phases"
            /\ run = 1
            /\ error = ""
            /\ events_in_memory \in BOOLEAN
            /\ indexFiles = (Resolve(DL3_dir, "", HduIndexName) :> StoreIndex)
            /\ eventFiles =
                   (Resolve(DL3_dir, "./",
                            OrigFileName(SyntheticObservation.obs_id)) :>
                        SyntheticEvents(ts))
            /\ dirs = {datastore_dir}
            /\ hdu_table = StoreIndex
            /\ observation = SyntheticObservation
            /\ times = ts
            /\ ephemeris_file = "crab_2015.par"
            /\ model = ParsedModel("crab_2015.par")
            /\ timing_model = model
            /\ warned = FALSE
            /\ toas = [i \in 1..n |-> [mjd |-> ts[i], obs |-> "magic"]]
            /\ raw_phases = << >>
            /\ phases = << >>
            /\ NoTableYet
            /\ NoOutputYet
            /\ OtherKernelsFresh

PhaseNext ==
    \/ ComputePhases(RawPhases)
    \/ ExtractTable
    \/ AddPhaseColumn

SpecPhase == PhaseInit /\ [][PhaseNext]_vars

\* the cells after the phase cell, up to the provenance cell
PhasesComputed == pc \in {"table", "add_column", "add_log"}

PhasePipelineElementwise ==
    /\ PhasesComputed =>
          /\ Len(phases) = Len(times)
          /\ \A i \in 1..Len(phases) :
                phases[i] = IF raw_phases[i] < 0 THEN raw_phases[i] + One
                            ELSE raw_phases[i]
          /\ raw_phases = << -3, 1, 6 >> => phases = << 7, 1, 6 >>
    /\ pc = "add_log" =>
          /\ table.cols["PHASE"] = phases
          /\ Len(table.cols["PHASE"]) = Len(table.cols["TIME"])

\* the example of the specification, through to the PHASE column
PhasePipelineWitness ==
    /\ pc = "add_log"
    /\ raw_phases = << -3, 1, 6 >>
    /\ table.cols["PHASE"] = << 7, 1, 6 >>

(***************************************************************************)
(* The index cells on any index table: the kernel as WriteEvents leaves    *)
(* it, for a store whose index is any table of up to MaxRows rows that     *)
(* lists an events HDU for the observation (it was loaded from it).        *)
(***************************************************************************)
IndexRows ==
    { IF redirected
      THEN Row(id, tn[1], tn[2], "./" \o output_directory, PulsarFileName(id))
      ELSE Row(id, tn[1], tn[2], "./", OrigFileName(id)) :
        id \in GoodObsIds,
        tn \in { << "events", "EVENTS" >>, << "events", "EVENTS_CRAB" >>,
                 << "aeff", "EFFECTIVE AREA" >> },
        redirected \in BOOLEAN }

IndexInit ==
    \E tbl \in SeqsUpTo(IndexRows, MaxRows), id \in GoodObsIds :
        /\ RowIdx(tbl, id, "events") # {}
        /\ pc = "copy_hdu"
        /\ run = 1
        /\ error = ""
        /\ events_in_memory = FALSE
        /\ indexFiles = (Resolve(DL3_dir, "", HduIndexName) :> tbl)
        /\ eventFiles = << >>
        /\ dirs = {datastore_dir, output_path}
        /\ hdu_table = tbl
        /\ observation = [obs_id |-> id, tstart |-> ObsStart(id),
                           tstop |-> ObsStop(id)]
        /\ times = << >>
        /\ NoModelYet
        /\ NoPhasesYet
        /\ NoTableYet
        /\ new_obs = [obs_id |-> id, events |-> NoTable]
        /\ filename = PulsarFileName(id)
        /\ file_path = output_path \o filename
        /\ new_hdu = << >>
        /\ pulsar_hdu = << >>
        /\ reloaded = NoReload
        /\ OtherKernelsFresh

IndexNext ==
    \/ CopyHdu
    \/ PatchHdu

SpecIndex == IndexInit /\ [][IndexNext]_vars

\* the rows of the data store's table the loop is meant for
TargetRows ==
    { i \in 1..Len(hdu_table) :
        hdu_table[i].HDU_NAME = "EVENTS"
        /\ hdu_table[i].OBS_ID = observation.obs_id }

\* row i of the copy holds the new location, and is otherwise as it was
RowRedirected(i) ==
    new_hdu[i] = [hdu_table[i] EXCEPT !.FILE_DIR = "./pulsar_events_file/",
                                      !.FILE_NAME = filename]

\* C3 as stated: for any index table and any target, the patch loop gives
\* the new FILE_DIR and FILE_NAME to exactly one row, the row with HDU_NAME
\* EVENTS and the target's OBS_ID, and leaves every other row as copied.
PatchChangesExactlyOneRow ==
    pc = "write_hdu" =>
        /\ Len(new_hdu) = Len(hdu_table)
        /\ \E i \in 1..Len(new_hdu) :
              /\ TargetRows = {i}
              /\ RowRedirected(i)
              /\ \A j \in 1..Len(new_hdu) : j # i => new_hdu[j] = hdu_table[j]

\* C3 as amended: the patch loop gives the new FILE_DIR and FILE_NAME to
\* every row with HDU_NAME EVENTS and the target's OBS_ID (one row when the
\* table holds one such row, none or several otherwise), changes no other
\* column of these rows, and leaves every other row as copied.
PatchChangesTargetRowsOnly ==
    pc = "write_hdu" =>
        /\ Len(new_hdu) = Len(hdu_table)
        /\ \A i \in 1..Len(new_hdu) :
              IF i \in TargetRows
              THEN RowRedirected(i)
              ELSE new_hdu[i] = hdu_table[i]

\* a table with one target row among rows of another observation and
\* another HDU, patched
PatchWitness ==
    /\ pc = "write_hdu"
    /\ Cardinality(TargetRows) = 1
    /\ Len(hdu_table) = MaxRows
    /\ \E i \in TargetRows : new_hdu[i] # hdu_table[i]
    /\ \E j \in 1..Len(hdu_table) :
          hdu_table[j].OBS_ID # observation.obs_id

(***************************************************************************)
(* check_time as a function: called with any observation and any timing    *)
(* model as argument, in a kernel whose global `model` is any parsed model. *)
(***************************************************************************)
Windows ==
    { [PSR |-> "J0534+2200", START |-> a, FINISH |-> b, TZRMJD |-> a,
       TZRSITE |-> "ssb", file |-> "crab.par"] :
        a \in 0..MaxTime, b \in 0..MaxTime }

ValidWindows == { w \in Windows : w.START < w.FINISH }

TimeInit ==
    \E a \in 0..MaxTime, b \in 0..MaxTime, m \in ValidWindows :
        /\ a <= b
        /\ pc = "check_time"
        /\ run = 1
        /\ error = ""
        /\ events_in_memory = FALSE
        /\ DiskAsDownloaded
        /\ hdu_table = StoreIndex
        /\ observation = [obs_id |-> 7, tstart |-> a, tstop |-> b]
        /\ times = ObsEventTimes(7)
        /\ ephemeris_file = "crab.par"
        /\ model = m
        /\ timing_model = NoModel
        /\ warned = FALSE
        /\ NoPhasesYet
        /\ NoTableYet
        /\ NoOutputYet
        /\ OtherKernelsFresh

TimeNext == \E tm \in ValidWindows : CheckTime(tm)

SpecTime == TimeInit /\ [][TimeNext]_vars

\* C4: check_time(observation, timing_model) logs its warning exactly when
\* the observation starts before the START or stops after the FINISH of
\* the timing model it was given as argument.
CheckTimeUsesItsArgument ==
    pc = "toas" =>
        (warned <=> \/ timing_model.START > observation.tstart
                    \/ timing_model.FINISH < observation.tstop)

(***************************************************************************)
(* Properties of the whole workflow.                                       *)
(***************************************************************************)
CellsAfterCheckTime ==
    {"toas", "phases", "table", "add_column", "add_log", "new_obs",
     "define_output", "write_events", "copy_hdu", "patch_hdu", "write_hdu",
     "open_pulsar", "get_pulsar_obs"}

\* C5: a time-window violation is no error: check_time goes on to the next
\* cell whatever the windows are, changing nothing but the log, and no cell
\* after it fails or stops, with or without the warning.
TimeWindowIsNoError ==
    [][ /\ pc = "check_time" =>
             /\ pc' = "toas"
             /\ UNCHANGED << run, error, indexFiles, eventFiles, dirs,
                             hdu_table, observation, events_in_memory,
                             table_is_obs_events, times, ephemeris_file,
                             model, toas, raw_phases, phases, table, attached,
                             new_obs, filename, file_path, new_hdu,
                             pulsar_hdu, reloaded >>
        /\ pc \in CellsAfterCheckTime =>
             /\ error' = ""
             /\ pc' \in (CellsAfterCheckTime \ {pc}) \cup {"done"}
             /\ warned' = warned ]_vars

\* a run that logged the warning and went through to the reloaded PHASE column
WarnedRunCompleted ==
    /\ pc = "done"
    /\ warned
    /\ "PHASE" \in DOMAIN reloaded.events.cols

\* the cells after new_obs has been created
NewObsCreated ==
    pc \in {"define_output", "write_events", "copy_hdu", "patch_hdu",
             "write_hdu", "open_pulsar", "get_pulsar_obs", "done"}

OriginalIndexFile == "/data/magic/hdu-index.fits.gz"

\* C8: the original index is never overwritten: after any number of runs
\* it has the content it had before the first one, and the only other
\* index file is hdu-index-pulsar.fits.gz.
OriginalIndexKept ==
    /\ OriginalIndexFile \in DOMAIN indexFiles
    /\ indexFiles[OriginalIndexFile] = StoreIndex
    /\ DOMAIN indexFiles \subseteq
          {OriginalIndexFile, "/data/magic/hdu-index-pulsar.fits.gz"}

\* a second run has written its patched index
PatchedIndexWrittenTwice ==
    /\ run = 2
    /\ pc = "open_pulsar"
    /\ "/data/magic/hdu-index-pulsar.fits.gz" \in DOMAIN indexFiles
    /\ indexFiles["/data/magic/hdu-index-pulsar.fits.gz"] # StoreIndex

\* C9: once the workflow is through, the observation loaded through the
\* patched index has an event table with the PHASE column, and the IRF
\* entries the original index gives for it.
ReloadGivesPhasesAndIrfs ==
    pc = "done" =>
        /\ reloaded.obs_id = observation.obs_id
        /\ "PHASE" \in DOMAIN reloaded.events.cols
        /\ reloaded.events.cols["PHASE"] = phases
        /\ reloaded.irfs
              = IrfEntries(indexFiles[OriginalIndexFile], observation.obs_id)
        /\ Len(reloaded.irfs) > 0

\* a completed run whose reloaded table holds a shifted phase
ReloadWitness ==
    /\ pc = "done"
    /\ "PHASE" \in DOMAIN reloaded.events.cols
    /\ \E i \in 1..Len(phases) :
          raw_phases[i] < 0 /\ reloaded.events.cols["PHASE"][i] = phases[i]
    /\ Len(reloaded.irfs) = 1

\* C10: a failing cell ends the run: the cell's exception is recorded, no
\* later cell of that run executes and no file is written after it; the
\* only thing that follows is the user starting a new run.
FailureEndsTheRun ==
    [][ /\ (pc = "get_model" /\ (ephemeris_file' \notin DOMAIN ParFiles
                                 \/ ParFiles[ephemeris_file'].JUMP)) =>
             (error' = "get_model" /\ model' = model)
        /\ (pc = "times" /\ observation.obs_id \in MissingFileObsIds) =>
             (error' = "times" /\ times' = times)
        /\ error # "" =>
             /\ pc' = "get_obs"
             /\ run' = run + 1
             /\ UNCHANGED << indexFiles, eventFiles, dirs, table, new_obs,
                             new_hdu >> ]_vars

\* a run ended by the ephemeris cell before anything was written
FailedRunWroteNothing ==
    /\ pc = "aborted"
    /\ error = "get_model"
    /\ ephemeris_file = "crab_jump.par"
    /\ DOMAIN indexFiles = {OriginalIndexFile}

(***************************************************************************)
(* The provenance cells run several times on one table, with the key and   *)
(* the column name the user chooses.                                       *)
(***************************************************************************)
MetaKeys == {"PH_LOG", "PH_LOG_2"}

PhaseColumnNames == {"PHASE", "PHASE_SRC2"}

InitialMetas(id) ==
    { ("OBS_ID" :> ToString(id)),
      ("OBS_ID" :> ToString(id)) @@ ("TELESCOP" :> "MAGIC"),
      ("OBS_ID" :> ToString(id)) @@ ("PH_LOG" :> "COLUMN_PHASE: OLD;") }

AttachAnother(key, column) ==
    /\ pc = "attach"
    /\ Len(attached) < MaxLogs
    /\ AttachLog(key, column)
    /\ UNCHANGED << otherKernels, pc, run, error, indexFiles, eventFiles, dirs,
                    hdu_table,
                    observation, events_in_memory, table_is_obs_events, times,
                    ephemeris_file, model, timing_model, warned, toas,
                    raw_phases, phases, new_obs, filename, file_path, new_hdu,
                    pulsar_hdu, reloaded >>

MetaInit ==
    \E id \in GoodObsIds, f \in {"0534+2200_ApJ_708_1254_2010.par",
                                  "crab_2015.par"} :
      \E m \in InitialMetas(id) :
        LET t == [colnames |-> << "TIME" >>,
                  cols |-> ("TIME" :> ObsEventTimes(id)), meta |-> m]
        IN  /\ pc = "attach"
            /\ run = 1
            /\ error = ""
            /\ events_in_memory = FALSE
            /\ indexFiles = (Resolve(DL3_dir, "", HduIndexName) :> StoreIndex)
            /\ eventFiles = (Resolve(DL3_dir, "./", OrigFileName(id)) :> t)
            /\ dirs = {datastore_dir}
            /\ hdu_table = StoreIndex
            /\ observation = [obs_id |-> id, tstart |-> ObsStart(id),
                               tstop |-> ObsStop(id)]
            /\ times = ObsEventTimes(id)
            /\ ephemeris_file = f
            /\ model = ParsedModel(f)
            /\ timing_model = model
            /\ warned = FALSE
            /\ NoPhasesYet
            /\ table_is_obs_events = TRUE
            /\ table = t
            /\ attached = << >>
            /\ NoOutputYet
            /\ OtherKernelsFresh

MetaNext == \E key \in MetaKeys, column \in PhaseColumnNames :
                AttachAnother(key, column)

SpecMeta == MetaInit /\ [][MetaNext]_vars

AttachedKeys == { attached[i][1] : i \in 1..Len(attached) }

Max(S) == CHOOSE x \in S : \A y \in S : y <= x

LastAttached(k) ==
    attached[Max({ i \in 1..Len(attached) : attached[i][1] = k })][2]

\* C7: provenance strings attached under distinct keys are all present with
\* their own values, a string attached under a key used before replaces the
\* earlier one, and no other metadata entry changes.
MetaKeysKeepTheirValues ==
    pc = "attach" =>
        LET before == eventFiles[ObservationFile].meta
        IN  /\ DOMAIN table.meta = DOMAIN before \cup AttachedKeys
            /\ \A k \in DOMAIN table.meta :
                  IF k \in AttachedKeys
                  THEN table.meta[k] = LastAttached(k)
                  ELSE table.meta[k] = before[k]

\* two different strings under two distinct keys, both present
TwoKeysBothPresent ==
    /\ pc = "attach"
    /\ Len(attached) = 2
    /\ attached[1][1] # attached[2][1]
    /\ attached[1][2] # attached[2][2]
    /\ table.meta[attached[1][1]] = attached[1][2]
    /\ table.meta[attached[2][1]] = attached[2][2]
    /\ "TELESCOP" \in DOMAIN table.meta

(***************************************************************************)
(* The editing notebook from its first cell: the grid is edited, sorted    *)
(* and filtered as its comment invites, and the load cell is run.          *)
(***************************************************************************)
EditInit ==
    /\ pc = "read_models"
    /\ events_in_memory = FALSE
    /\ FreshKernel
    /\ DiskAsDownloaded
    /\ OtherKernelsFresh

EditNext ==
    \/ ReadModels
    \/ \E i \in 0..2, v \in ParameterValues : EditCell(i, "value", v)
    \/ \E i \in 0..2, b \in BOOLEAN : EditCell(i, "frozen", b)
    \/ \E field \in {"value", "frozen"}, ascending \in BOOLEAN :
          ChangeSort(field, ascending)
    \/ \E m \in {"", "gc", "g09"} : ChangeFilter(m)
    \/ LoadChanged

SpecEdit == EditInit /\ [][EditNext]_vars

\* the row the grid holds for the k-th parameter says what the parameter is
RowAgreesWithParameter(k) ==
    \E j \in 1..Len(qgrid_widget.unfiltered) :
        /\ qgrid_widget.unfiltered[j].idx = k - 1
        /\ qgrid_widget.unfiltered[j].value = models[k].value
        /\ qgrid_widget.unfiltered[j].frozen = models[k].frozen

\* C11: what is done in the grid leaves the parameters of models as they
\* are until the load cell runs; the load cell gives every parameter the
\* value (and frozen flag) the changed table holds for it, and a parameter
\* whose row was not edited keeps the value it had.
EditsLoadedIntoModels ==
    [][ /\ (pc \in {"grid", "loaded"} /\ pc' = "grid") => models' = models
        /\ (pc = "grid" /\ pc' = "loaded") =>
              \A k \in 1..Len(models) :
                 /\ \A j \in 1..Len(qgrid_df') :
                       (/\ qgrid_df'[j].model = models[k].model
                        /\ qgrid_df'[j].name = models[k].name) =>
                           /\ models'[k].value = qgrid_df'[j].value
                           /\ models'[k].frozen = qgrid_df'[j].frozen
                 /\ RowAgreesWithParameter(k) => models'[k] = models[k]
      ]_vars

(***************************************************************************)
(* The MCMC notebook from the definition of the models: init_model, the    *)
(* emcee cell and the zeus cell, each sampler calling lnprob up to         *)
(* MaxCalls times with any of the proposed positions.                      *)
(***************************************************************************)
McmcInit ==
    /\ pc = "define_models"
    /\ events_in_memory = FALSE
    /\ FreshKernel
    /\ DiskAsDownloaded
    /\ OtherKernelsFresh

McmcNext ==
    \/ DefineModels
    \/ InitModelCell
    \/ EmceeCell
    \/ \E pars \in Proposals : EmceeLnprob(pars)
    \/ \E chain \in Chains(nrun_emcee) : EmceeFinish(chain)
    \/ ZeusCell
    \/ \E pars \in Proposals : ZeusLnprob(pars)
    \/ \E chain \in Chains(nrun_zeus) : ZeusFinish(chain)

SpecMcmc == McmcInit /\ [][McmcNext]_vars

\* the zeus cell has computed its starting positions
ZeusStarted ==
    pc \in {"zeus_run", "mcmc_done", "corner", "dispersion", "fun_zone"}

\* C12: both samplers start from the same walker positions: whatever lnprob
\* did to the parameters during the emcee run, the zeus cell's init_model()
\* gives the same free parameters with the same starting values, so that
\* zeus is started from the array emcee was started from, element by
\* element.
SamplersStartFromSamePositions ==
    ZeusStarted =>
        /\ sampler2.start = sampler.start
        /\ Len(sampler2.start) = nwalkers
        /\ \A w \in 1..nwalkers :
              /\ Len(sampler2.start[w]) = Len(labels)
              /\ \A d \in 1..Len(labels) :
                    sampler2.start[w][d] = sampler.start[w][d]
        /\ pc = "zeus_run" /\ sampler2.calls = 0 =>
              /\ FreeNames(parameters) = labels
              /\ FreeValues(parameters) = p0
              /\ p0_walkers = sampler.start

\* zeus started after an emcee run that moved all four free parameters
ZeusStartedAfterEmceeMoved ==
    /\ pc = "zeus_run"
    /\ sampler.calls = MaxCalls
    /\ sampler.lnp = 0 - 29
    /\ labels = << "index", "amplitude", "lambda_", "norm" >>
    /\ p0 = << 15, 50, 50, 9 >>
    /\ sampler2.start = sampler.start

(***************************************************************************)
(* Persistence of the event file and of the patched index.                 *)
(***************************************************************************)
\* where the patched index lies
PulsarIndexFile == "/data/magic/hdu-index-pulsar.fits.gz"

\* the file an index row names
RowLocation(r) == Resolve("/data/magic", r.FILE_DIR, r.FILE_NAME)

\* the cells after the patched index has been written in the current run
IndexWritten == pc \in {"open_pulsar", "get_pulsar_obs", "done"}

\* C13: the patched index is written after the augmented event file: in
\* every state in which hdu-index-pulsar.fits.gz exists, each EVENTS entry
\* it redirects names an event file that is on disk and holds a PHASE
\* column, and once a run has written the index, the EVENTS entry of the
\* run's observation is such an entry.
IndexWrittenAfterEvents ==
    PulsarIndexFile \in DOMAIN indexFiles =>
        LET idx == indexFiles[PulsarIndexFile]
        IN  /\ \A i \in 1..Len(idx) :
                  (idx[i].HDU_NAME = "EVENTS"
                   /\ idx[i].FILE_DIR = "./pulsar_events_file/") =>
                      /\ RowLocation(idx[i]) \in DOMAIN eventFiles
                      /\ "PHASE" \in DOMAIN eventFiles[RowLocation(idx[i])].cols
            /\ \E i \in 1..Len(idx) :
                  idx[i].FILE_DIR = "./pulsar_events_file/"
            /\ IndexWritten =>
                  \E i \in 1..Len(idx) :
                      /\ idx[i].OBS_ID = observation.obs_id
                      /\ idx[i].HDU_NAME = "EVENTS"
                      /\ idx[i].FILE_DIR = "./pulsar_events_file/"
                      /\ RowLocation(idx[i]) \in DOMAIN eventFiles

\* the index has just been written, its event file being on disk
IndexJustWritten ==
    /\ pc = "open_pulsar"
    /\ PulsarIndexFile \in DOMAIN indexFiles
    /\ file_path \in DOMAIN eventFiles
    /\ \E i \in 1..Len(indexFiles[PulsarIndexFile]) :
          RowLocation(indexFiles[PulsarIndexFile][i]) = file_path

\* the augmented event file of an observation
PhasedFile(id) == "/data/magic/pulsar_events_file/" \o PulsarFileName(id)

\* the observations whose augmented event file has been written
Processed == { id \in GoodObsIds : PhasedFile(id) \in DOMAIN eventFiles }

\* C14: once a run has written the patched index, the index on disk
\* directs the EVENTS entry of every observation processed so far, that of
\* the run before as well as that of this run, to the observation's
\* augmented event file.
IndexDirectsEveryProcessedObservation ==
    IndexWritten =>
        \A id \in Processed :
            EventsLocation(indexFiles[PulsarIndexFile], id) = PhasedFile(id)

\* the cells after the patch loop
Patched == pc \in {"write_hdu", "open_pulsar", "get_pulsar_obs", "done"}

\* C15: the location the patch records is the location written: the
\* FILE_DIR and FILE_NAME of the patched row, resolved against the base
\* directory of the index, give file_path, the path new_obs.write stored
\* the augmented event file under, for every observation.
PatchedLocationIsWrittenLocation ==
    Patched =>
        /\ \A i \in 1..Len(new_hdu) :
              (new_hdu[i].HDU_NAME = "EVENTS"
               /\ new_hdu[i].OBS_ID = observation.obs_id) =>
                  RowLocation(new_hdu[i]) = file_path
        /\ \E i \in 1..Len(new_hdu) :
              /\ new_hdu[i].OBS_ID = observation.obs_id
              /\ RowLocation(new_hdu[i]) = file_path
        /\ file_path \in DOMAIN eventFiles
        /\ eventFiles[file_path] = new_obs.events

\* the patch of a run for observation 7, whose number is padded
PatchedLocationOfPaddedId ==
    /\ pc = "write_hdu"
    /\ observation.obs_id = 7
    /\ file_path = "/data/magic/pulsar_events_file/dl3_pulsar_0007.fits.gz"
    /\ RowLocation(new_hdu[1]) = file_path
    /\ file_path \in DOMAIN eventFiles

LogFor(ephem, key, column) ==
    /\ pc = "attach"
    /\ Len(attached) < MaxLogs
    /\ LET phase_log == GetLog(ephem, column)
       IN  /\ table' = SetMeta(table, key, phase_log)
           /\ attached' = Append(attached, << key, phase_log >>)
    /\ UNCHANGED << otherKernels, pc, run, error, indexFiles, eventFiles,
                    dirs, hdu_table, observation, events_in_memory,
                    table_is_obs_events, times, ephemeris_file, model,
                    timing_model, warned, toas, raw_phases, phases, new_obs,
                    filename, file_path, new_hdu, pulsar_hdu, reloaded >>

LogNext ==
    \E ephem \in DOMAIN ParFiles, key \in MetaKeys, column \in PhaseColumnNames :
        LogFor(ephem, key, column)

SpecLog == MetaInit /\ [][LogNext]_vars

\* the provenance string of a column, an ephemeris file and the timing
\* model parsed from that file
LogOfFile(column, f) ==
    "COLUMN_PHASE: " \o column
    \o "; EPHEM_FILE: " \o f
    \o "; PSRJ :" \o ParFiles[f].PSR
    \o "; START: " \o ToString(ParFiles[f].START)
    \o "; FINISH: " \o ToString(ParFiles[f].FINISH)
    \o "; TZRMJD: " \o ToString(ParFiles[f].TZRMJD)
    \o "; TZRSITE: " \o ParFiles[f].TZRSITE
    \o "; PHASE_OFFSET: default = 0"
    \o "; DATE: " \o ToString(run) \o ";"

\* C18: the string get_log(ephemeris_file, phase_column_name) returns names
\* the column and the ephemeris file it was given, and the validity window
\* (START, FINISH), the reference epoch and the reference site in it are
\* those of the timing model parsed from that ephemeris file, whichever
\* file is passed.
LogAgreesWithItsEphemerisFile ==
    \A n \in 1..Len(attached) :
        \E f \in DOMAIN ParFiles, column \in PhaseColumnNames :
            attached[n][2] = LogOfFile(column, f)

\* C17: as the comment of the shift says, the phases are shifted to the
\* interval (0, 1]: every evaluator value of [-0.5, 0.5] comes out as a
\* phase p with 0 < p <= 1.
ShiftGivesPhasesAboveZero ==
    PhasesComputed =>
        \A i \in 1..Len(raw_phases) :
            (-One <= 2 * raw_phases[i] /\ 2 * raw_phases[i] <= One) =>
                (0 < phases[i] /\ phases[i] <= One)

(***************************************************************************)
(* The augmentation cells (phases, table, PHASE column, provenance) run    *)
(* again and again on one observation.                                     *)
(***************************************************************************)
\* the user runs the augmentation cells once more on the same observation
AugmentAgain ==
    /\ pc = "new_obs"
    /\ run < MaxRuns
    /\ run' = run + 1
    /\ pc' = "phases"
    /\ UNCHANGED << otherKernels, error, indexFiles, eventFiles, dirs,
                    hdu_table, observation, events_in_memory,
                    table_is_obs_events, times, ephemeris_file, model,
                    timing_model, warned, toas, raw_phases, phases, table,
                    attached, new_obs, filename, file_path, new_hdu,
                    pulsar_hdu, reloaded >>

AugmentNext ==
    \/ ComputePhases(WorkflowRawPhases)
    \/ ExtractTable
    \/ AddPhaseColumn
    \/ AddPhaseLog
    \/ AugmentAgain

SpecAugment == PhaseInit /\ [][AugmentNext]_vars

\* the names of a sequence of column names
NameSet(names) == { names[i] : i \in 1..Len(names) }

\* C19: however often the augmentation has run on an observation, the
\* column names of the table are unique (PHASE is there once: a further run
\* replaces it), every column the event list had keeps its values, and the
\* rows are those of the event list, as many and in the same order.
EventTableInvariant ==
    pc \in {"add_log", "new_obs"} =>
        LET orig == eventFiles[ObservationFile]
        IN  /\ Cardinality(NameSet(table.colnames)) = Len(table.colnames)
            /\ table.colnames = orig.colnames \o << "PHASE" >>
            /\ NameSet(table.colnames) = DOMAIN table.cols
            /\ \A c \in DOMAIN orig.cols : table.cols[c] = orig.cols[c]
            /\ \A c \in DOMAIN table.cols :
                  Len(table.cols[c]) = Len(orig.cols["TIME"])
            /\ table.cols["PHASE"] = phases

\* a second run has put new phases into the PHASE column of a table that
\* held the column of the first run
PhaseColumnReplaced ==
    /\ pc = "add_log"
    /\ run = 2
    /\ events_in_memory
    /\ Len(times) = 2
    /\ "PH_LOG" \in DOMAIN table.meta
    /\ table.colnames = << "TIME", "PHASE" >>
    /\ table.cols["PHASE"] = << 7, 4 >>

\* C20: the patch loop works on a copy: after it, the table of the data
\* store holds for every row, the EVENTS row of the target observation
\* included, the FILE_DIR and FILE_NAME it was opened with.
PatchLeavesStoreTable ==
    pc = "write_hdu" =>
        LET opened == indexFiles[OriginalIndexFile]
        IN  /\ Len(hdu_table) = Len(opened)
            /\ \A i \in 1..Len(hdu_table) :
                  /\ hdu_table[i].FILE_DIR = opened[i].FILE_DIR
                  /\ hdu_table[i].FILE_NAME = opened[i].FILE_NAME
                  /\ hdu_table[i] = opened[i]

\* the copy holds the new location of the target's EVENTS row, the table
\* of the data store the old one
CopyPatchedStoreTableNot ==
    /\ pc = "write_hdu"
    /\ \E i \in TargetRows :
          /\ new_hdu[i].FILE_DIR = "./pulsar_events_file/"
          /\ hdu_table[i].FILE_DIR = "./"
          /\ hdu_table[i].FILE_NAME = OrigFileName(observation.obs_id)

(***************************************************************************)
(* The likelihood function the samplers call.                              *)
(***************************************************************************)
\* what a call lnprob(pars, dataset) that returned result made of the
\* parameters: the i-th free parameter got pars[i], the others are as they
\* were, and result is the negative of stat_sum() of the new parameters
LnprobEffect(before, after, pars, result) ==
    /\ Len(after) = Len(before)
    /\ Len(pars) = Len(FreeParameters(before))
    /\ \A i \in 1..Len(pars) : \A k \in 1..Len(before) :
          /\ before[k].model = FreeParameters(before)[i].model
          /\ before[k].name = FreeParameters(before)[i].name
          => after[k] = [before[k] EXCEPT !.value = pars[i]]
    /\ \A k \in 1..Len(before) : before[k].frozen => after[k] = before[k]
    /\ result = 0 - StatSum(after)

\* C21: every call of lnprob by a sampler assigns pars[i] to the i-th free
\* parameter of dataset.models, in the order of free_parameters, leaves
\* every frozen parameter as it was, and returns the negative of stat_sum()
\* of the parameters after the assignment.
LnprobAssignsFreeParameters ==
    [][ /\ sampler'.calls = sampler.calls + 1 =>
              LnprobEffect(parameters, parameters', sampler'.pars,
                           sampler'.lnp)
        /\ sampler2'.calls = sampler2.calls + 1 =>
              LnprobEffect(parameters, parameters', sampler2'.pars,
                           sampler2'.lnp)
      ]_vars

\* zeus has called lnprob with a position away from the simulated values and
\* from those of init_model
LnprobCalledByZeus ==
    /\ pc = "zeus_run"
    /\ sampler2.calls = MaxCalls
    /\ sampler2.pars = << 18, 41, 20, 11 >>
    /\ FreeValues(parameters) = << 18, 41, 20, 11 >>
    /\ FreeNames(parameters) = << "index", "amplitude", "lambda_", "norm" >>
    /\ parameters[ParIdx(parameters, "reference")].value = 10
    /\ parameters[ParIdx(parameters, "sigma")].value = 20
    /\ sampler2.lnp = 0 - 29

(***************************************************************************)
(* The priors and the free parameters init_model() leaves.                 *)
(***************************************************************************)
\* init_model() has been called
ModelInitialised ==
    pc \in {"emcee", "emcee_run", "zeus", "zeus_run", "mcmc_done", "corner",
           "dispersion", "fun_zone"}

\* C23: once init_model() has been called, every parameter of
\* dataset.models that is free has a prior, and the free parameters are
\* exactly index, amplitude, lambda_ and norm; the calls of lnprob and the
\* later calls of init_model() keep it so.
FreeParametersHavePriors ==
    ModelInitialised =>
        /\ \A k \in 1..Len(parameters) :
              ~parameters[k].frozen => parameters[k].prior # ""
        /\ { parameters[k].name : k \in { j \in 1..Len(parameters) :
                                            ~parameters[j].frozen } }
              = {"index", "amplitude", "lambda_", "norm"}
        /\ Len(FreeParameters(parameters)) = 4

\* the first call of init_model() has returned: four free parameters with
\* their priors, and sigma frozen with the prior it was given
InitModelCalledOnce ==
    /\ pc = "emcee"
    /\ FreeNames(parameters) = << "index", "amplitude", "lambda_", "norm" >>
    /\ parameters[ParIdx(parameters, "index")].prior
          = "GaussianPrior(mu=2.0, sigma=0.5)"
    /\ parameters[ParIdx(parameters, "norm")].prior
          = "GaussianPrior(mu=1.0, sigma=0.1)"
    /\ parameters[ParIdx(parameters, "lambda_")].prior
          = "UniformPrior(min=1e-2, max=1, weight=10)"
    /\ parameters[ParIdx(parameters, "amplitude")].prior
          = "UniformPrior(min=3e-13, max=3e-11, weight=10)"
    /\ parameters[ParIdx(parameters, "sigma")].frozen
    /\ parameters[ParIdx(parameters, "sigma")].prior # ""

(***************************************************************************)
(* The MCMC notebook through its plot cells: the notebook of SpecMcmc with *)
(* the last calls of lnprob of each run being for one position, followed   *)
(* by the trace plot, the corner plots and the dispersion plot.            *)
(***************************************************************************)
ChainNext ==
    \/ DefineModels
    \/ InitModelCell
    \/ EmceeCell
    \/ EmceeLnprob(Positions[Len(Positions)])
    \/ \E chain \in Chains(nrun_emcee) : EmceeFinish(chain)
    \/ ZeusCell
    \/ ZeusLnprob(Positions[Len(Positions)])
    \/ \E chain \in Chains(nrun_zeus) : ZeusFinish(chain)
    \/ TracePlot
    \/ CornerPlots
    \/ DispersionPlot

SpecChain == McmcInit /\ [][ChainNext]_vars

\* a.shape of an array of positions
Shape(a) == << Len(a), ChainWalkers(a), ChainDim(a) >>

\* the indices the plot cells use lie within an array of the given shape:
\* idx on the last axis, nburn1 and nburn2 on the first, n on the first and
\* nwalk on the second
IndicesWithin(shape1, shape2) ==
    /\ \A idx \in 0..(Len(labels) - 1) : idx < shape1[3] /\ idx < shape2[3]
    /\ nburn1 < shape1[1]
    /\ nburn2 < shape2[1]
    /\ \A n \in nburn..(nburn + nmodel - 1) : n < shape2[1]
    /\ \A nwalk \in 0..(nwalkers - 1) : nwalk < shape2[2]

\* C24: the chains the samplers return have the shape (nwalkers, nrun,
\* nfreeparam), the indices of the trace plot, of the burn-in slices and of
\* the dispersion loop lie within that shape, and no plot cell raises an
\* exception.
ChainShapeAsDocumented ==
    /\ samples1 # << >> =>
          Shape(samples1) = << nwalkers, nrun_emcee, Len(labels) >>
    /\ samples2 # << >> =>
          /\ Shape(samples2) = << nwalkers, nrun_zeus, Len(labels) >>
          /\ IndicesWithin(Shape(samples1), Shape(samples2))
    /\ raised = ""

\* what the chains are: (nrun, nwalkers, nfreeparam), the steps on the first
\* axis, with the indices of the plot cells within it
ChainShapeOfGetChain ==
    /\ samples1 # << >> =>
          Shape(samples1) = << nrun_emcee, nwalkers, Len(labels) >>
    /\ samples2 # << >> =>
          /\ Shape(samples2) = << nrun_zeus, nwalkers, Len(labels) >>
          /\ IndicesWithin(Shape(samples1), Shape(samples2))
    /\ raised = ""
    /\ corner_samples # << >> =>
          /\ Len(corner_samples) = (nrun_zeus - nburn2) * nwalkers
          /\ \A r \in 1..Len(corner_samples) :
                Len(corner_samples[r]) = Len(labels)

\* the truth as the notebook simulated it: index 2, amplitude 3e-12,
\* lambda_ 0.05
SimulatedSpectrum ==
    [name \in {"index", "amplitude", "lambda_"} |->
        SimulatedParameters[ParIdx(SimulatedParameters, name)].value]

\* C22: the curve drawn in red as the truth model in the dispersion plot is
\* drawn from the simulated values index 2, amplitude 3e-12 and lambda_
\* 0.05, after init_model, both sampler runs and the loop that sets the
\* parameters from the samples.
RedLineIsSimulatedModel ==
    red_line # << >> =>
        \A k \in 1..Len(red_line) :
            red_line[k].name \in DOMAIN SimulatedSpectrum
            => red_line[k].value = SimulatedSpectrum[red_line[k].name]

\* the copy taken at the definition still has the simulated values when the
\* red curve is drawn, and the curve is that of the last sample set
RedLineIsLastSample ==
    red_line # << >> =>
        /\ models_true = SimulatedParameters
        /\ red_line = SpectralModel(SkyModelSimu(parameters))
        /\ FreeValues(parameters) = samples2[nburn + nmodel][nwalkers]

====
